---- MODULE Spec2Model ----
(***************************************************************************)
(* TermChat server (src/server.py): the accept loop of main, one           *)
(* handle_client_final worker per connection, the connected_events         *)
(* registry guarded by events_lock, and the relay threads of each worker.  *)
(* Bytes are one-character strings; a line is a sequence of bytes.         *)
(***************************************************************************)
EXTENDS Naturals, Sequences, FiniteSets, TLC

\* Number of client connections the accept loop hands out.
MaxConns == 3

Conns == 1..MaxConns

\* Number of connections in the specifications of a single pair.
PairConns == 2

\* Python's None, for a connection or an entry that is not there.
None == 0

CR == "\r"
LF == "\n"
BS == "<08>"
DEL == "<7f>"
BEL == "<07>"
SP == " "

\* str.isprintable() of the decoded result of recv(1): the empty string
\* (no bytes received) is printable, control characters are not.
IsPrintable(ch) == ch \notin {CR, LF, BS, DEL, BEL}

IsSpace(ch) == ch \in {SP, CR, LF}

RECURSIVE LStrip(_)
LStrip(s) == IF s # <<>> /\ IsSpace(Head(s)) THEN LStrip(Tail(s)) ELSE s

RECURSIVE RStrip(_)
RStrip(s) ==
    IF s # <<>> /\ IsSpace(s[Len(s)]) THEN RStrip(SubSeq(s, 1, Len(s) - 1)) ELSE s

\* str.strip()
Strip(s) == RStrip(LStrip(s))

UpperCh(ch) ==
    CASE ch = "a" -> "A"
      [] ch = "b" -> "B"
      [] ch = "i" -> "I"
      [] ch = "q" -> "Q"
      [] ch = "t" -> "T"
      [] ch = "u" -> "U"
      [] OTHER -> ch

LowerCh(ch) ==
    CASE ch = "A" -> "a"
      [] ch = "B" -> "b"
      [] ch = "I" -> "i"
      [] ch = "Q" -> "q"
      [] ch = "T" -> "t"
      [] ch = "U" -> "u"
      [] OTHER -> ch

\* str.upper() and str.lower()
Upper(s) == [i \in 1..Len(s) |-> UpperCh(s[i])]
Lower(s) == [i \in 1..Len(s) |-> LowerCh(s[i])]

\* The code stripped, with its case left as typed.
NormalizeCodeKeepCase(s) == Strip(s)

\* code = code.strip().upper()
NormalizeCode(s) == Upper(Strip(s))

QUIT == <<"/", "q", "u", "i", "t">>

\* The comparison without lower().
IsQuitExact(msg) == msg = QUIT

\* msg.lower() == "/quit"
IsQuit(msg) == Lower(msg) = QUIT

\* The dict connected_events as a set of <<code, entry>> pairs, one per key.
DictHas(d, k) == \E p \in d : p[1] = k
DictGet(d, k) == (CHOOSE p \in d : p[1] = k)[2]
DictPop(d, k) == {p \in d : p[1] # k}
DictPut(d, k, v) == DictPop(d, k) \cup {<<k, v>>}

Front(s) == SubSeq(s, 1, Len(s) - 1)

VARIABLES
    arrivals,          \* how many clients connect in this run
    script,            \* what each client sends, chunk by chunk, fixed per run
    todo,              \* the chunks of script the client has not sent yet
    inq,               \* bytes received on a connection and not yet read
    cli,               \* the client's end: "open", "fin" (closed) or "reset"
    sock,              \* TRUE while the server's socket object is open
    out,               \* what has been sent to each client, in order
    pc,                \* position of each handle_client_final worker
    line,              \* read_line's local `line`
    code,              \* the worker's local `code`
    entry,             \* the worker's local `entry` (the creator's id names it)
    joining,           \* the worker's local `joining`
    fired,             \* the worker's local `fired`
    partner_conn,      \* the worker's local `partner_conn`
    connected_events,  \* the registry: code -> entry
    entries,           \* the entry objects: event flag and partner
    events_lock,       \* the worker holding events_lock, or None
    stop_event,        \* the worker's stop_event flag
    rpc,               \* position of the worker's relay threads t1, t2
    rbuf,              \* relay's local `buffer`, per thread
    closeLog,          \* history: who called close() on each connection
    joinLog,           \* history: which workers popped each entry to join it
    eofSeen            \* history: read_line's recv returned no bytes

vars == <<arrivals, script, todo, inq, cli, sock, out, pc, line, code, entry, joining,
          fired, partner_conn, connected_events, entries, events_lock,
          stop_event, rpc, rbuf, closeLog, joinLog, eofSeen>>

netVars == <<arrivals, script, todo, inq, cli>>
localVars == <<line, code, entry, joining, fired, partner_conn>>
regVars == <<connected_events, entries, events_lock, joinLog>>
relayVars == <<stop_event, rpc, rbuf>>

Threads == 1..2

\* A joiner whose t1 forwards to the party whose entry it popped.
ReceiverAcrossPair(c, k) ==
    IF k = 1 THEN (IF joining[c] THEN entry[c] ELSE partner_conn[c]) ELSE c

\* relay(conn, partner_conn, ...) is t1 and relay(partner_conn, conn, ...) is t2.
Sender(c, k) == IF k = 1 THEN c ELSE partner_conn[c]
Receiver(c, k) == IF k = 1 THEN partner_conn[c] ELSE c

\* conn.send succeeds on an open socket whose peer has not reset the connection;
\* on None, on a closed socket object or after a reset it raises.
CanSend(r) == r # None /\ sock[r] /\ cli[r] # "reset"

Msg(kind, text) == <<kind, text>>

Sent(o, r, m) == [o EXCEPT ![r] = Append(@, m)]

\* acquiring events_lock needs it free
LockFreeAlways(l) == TRUE
LockFree(l) == l = None

\* Where a return or an exception inside the try block leads: the finally clause.
ExitToLeaky(path) == IF path = "invalid" THEN "done" ELSE "finally"
ExitTo(path) == "finally"

\* relay's finally clause: stop_event.set()
RelayFinallyNoSet(se, c) == se
RelayFinally(se, c) == [se EXCEPT ![c] = TRUE]

\* relay's loop condition: while not stop_event.is_set()
LoopConditionBlind(se, c) == TRUE
LoopCondition(se, c) == ~se[c]

InitCommon ==
    /\ todo = script
    /\ inq = [c \in Conns |-> <<>>]
    /\ cli = [c \in Conns |-> "open"]
    /\ sock = [c \in Conns |-> TRUE]
    /\ out = [c \in Conns |-> <<>>]
    /\ pc = [c \in Conns |-> "idle"]
    /\ line = [c \in Conns |-> <<>>]
    /\ code = [c \in Conns |-> <<>>]
    /\ entry = [c \in Conns |-> None]
    /\ joining = [c \in Conns |-> FALSE]
    /\ fired = [c \in Conns |-> FALSE]
    /\ partner_conn = [c \in Conns |-> None]
    /\ connected_events = {}
    /\ entries = [c \in Conns |-> [event |-> FALSE, partner |-> None]]
    /\ events_lock = None
    /\ stop_event = [c \in Conns |-> FALSE]
    /\ rpc = [c \in Conns |-> [k \in Threads |-> "none"]]
    /\ rbuf = [c \in Conns |-> [k \in Threads |-> <<>>]]
    /\ closeLog = [c \in Conns |-> <<>>]
    /\ joinLog = [c \in Conns |-> {}]
    /\ eofSeen = [c \in Conns |-> FALSE]

(***************************************************************************)
(* The clients.                                                            *)
(***************************************************************************)

\* The client has been sent a message of this kind.
HasSeen(c, kind) == \E i \in 1..Len(out[c]) : out[c][i][1] = kind

\* The client sends the next chunk of its script, once it has seen the message
\* the chunk answers.
ClientSend(c) ==
    /\ pc[c] # "idle" /\ cli[c] = "open" /\ sock[c]
    /\ todo[c] # <<>>
    /\ HasSeen(c, Head(todo[c]).after)
    /\ inq' = [inq EXCEPT ![c] = @ \o Head(todo[c]).data]
    /\ todo' = [todo EXCEPT ![c] = Tail(@)]
    /\ UNCHANGED <<arrivals, script, cli, sock, out, pc, localVars, regVars, relayVars,
                   closeLog, eofSeen>>

\* The client closes its end in an orderly way: recv returns no bytes once the
\* pending input is read.
ClientClose(c) ==
    /\ pc[c] # "idle" /\ sock[c] /\ cli[c] = "open"
    /\ cli' = [cli EXCEPT ![c] = "fin"]
    /\ UNCHANGED <<arrivals, script, todo, inq, sock, out, pc, localVars, regVars,
                   relayVars, closeLog, eofSeen>>

\* The connection is reset (the client is gone): recv and send raise from now on.
ClientReset(c) ==
    /\ pc[c] # "idle" /\ sock[c] /\ cli[c] # "reset"
    /\ cli' = [cli EXCEPT ![c] = "reset"]
    /\ inq' = [inq EXCEPT ![c] = <<>>]
    /\ UNCHANGED <<arrivals, script, todo, sock, out, pc, localVars, regVars, relayVars,
                   closeLog, eofSeen>>

(***************************************************************************)
(* main: accept a connection and start its handle_client_final worker.     *)
(***************************************************************************)
Accept(c) ==
    /\ pc[c] = "idle" /\ c <= arrivals
    /\ \A d \in Conns : d < c => pc[d] # "idle"
    /\ pc' = [pc EXCEPT ![c] = "banner"]
    /\ UNCHANGED <<netVars, sock, out, localVars, regVars, relayVars, closeLog,
                   eofSeen>>

(***************************************************************************)
(* handle_client_final, up to the registry.                                *)
(***************************************************************************)

\* The five sends of the welcome banner and the prompt.
Banner(c) ==
    /\ pc[c] = "banner"
    /\ IF CanSend(c)
       THEN /\ out' = Sent(out, c, Msg("banner", <<>>))
            /\ pc' = [pc EXCEPT ![c] = "read_line"]
       ELSE /\ pc' = [pc EXCEPT ![c] = ExitTo("error")]
            /\ out' = out
    /\ UNCHANGED <<netVars, sock, localVars, regVars, relayVars, closeLog,
                   eofSeen>>

\* read_line's loop run over the bytes q that are there to be received, from
\* the local line ln with the echoes e sent so far: each byte is the end of the
\* line, a backspace, a printable character (appended and echoed) or ignored.
\* The run ends with the line ("line"), with the bytes used up and the loop
\* waiting in recv ("more"), or with a send that raises ("raise").
RECURSIVE ReadLineRun(_, _, _, _)
ReadLineRun(ln, q, e, ok) ==
    IF q = <<>>
    THEN [line |-> ln, inq |-> q, echo |-> e, result |-> "more"]
    ELSE LET ch == Head(q) IN
         IF ch \in {CR, LF}
         THEN [line |-> ln, inq |-> Tail(q), echo |-> e, result |-> "line"]
         ELSE IF ch \in {DEL, BS}
         THEN IF ln = <<>>
              THEN ReadLineRun(ln, Tail(q), e, ok)
              ELSE IF ok
              THEN ReadLineRun(Front(ln), Tail(q), Append(e, Msg("erase", <<>>)), ok)
              ELSE [line |-> Front(ln), inq |-> Tail(q), echo |-> e, result |-> "raise"]
         ELSE IF IsPrintable(ch)
         THEN IF ok
              THEN ReadLineRun(Append(ln, ch), Tail(q), Append(e, Msg("echo", <<ch>>)), ok)
              ELSE [line |-> Append(ln, ch), inq |-> Tail(q), echo |-> e, result |-> "raise"]
         ELSE ReadLineRun(ln, Tail(q), e, ok)

\* A check that lets every code through.
IsEmptyCodeNever(cd) == FALSE

\* if not code:
IsEmptyCode(cd) == cd = <<>>

\* After read_line has returned the line ln: code = code.strip().upper();
\* conn.send(b"\r\n"); an empty code is answered with "Invalid code" and return.
AfterReadLine(c, ln, o) ==
    /\ code' = [code EXCEPT ![c] = NormalizeCode(ln)]
    /\ IF ~CanSend(c)
       THEN /\ pc' = [pc EXCEPT ![c] = ExitTo("error")]
            /\ out' = o
       ELSE IF IsEmptyCode(NormalizeCode(ln))
       THEN /\ out' = Sent(Sent(o, c, Msg("newline", <<>>)), c, Msg("invalid", <<>>))
            /\ pc' = [pc EXCEPT ![c] = ExitTo("invalid")]
       ELSE /\ out' = Sent(o, c, Msg("newline", <<>>))
            /\ pc' = [pc EXCEPT ![c] = "acquire"]

\* read_line's loop over the bytes received so far and, when it returns a line,
\* the check of the code.
ReadLineChar(c) ==
    /\ pc[c] = "read_line" /\ cli[c] # "reset" /\ inq[c] # <<>>
    /\ LET r == ReadLineRun(line[c], inq[c], <<>>, CanSend(c)) IN
       /\ inq' = [inq EXCEPT ![c] = r.inq]
       /\ line' = [line EXCEPT ![c] = r.line]
       /\ CASE r.result = "line" ->
                 AfterReadLine(c, r.line, [out EXCEPT ![c] = @ \o r.echo])
            [] r.result = "more" ->
                 /\ out' = [out EXCEPT ![c] = @ \o r.echo]
                 /\ UNCHANGED <<pc, code>>
            [] OTHER ->
                 /\ out' = [out EXCEPT ![c] = @ \o r.echo]
                 /\ pc' = [pc EXCEPT ![c] = ExitTo("unreadable")]
                 /\ UNCHANGED code
    /\ UNCHANGED <<arrivals, script, todo, cli, sock, entry, joining, fired,
                   partner_conn, regVars, relayVars, closeLog, eofSeen>>

\* recv(1) returns no bytes: the stream has ended.  The decoded character is the
\* empty string, which is neither a line end nor a backspace and is printable:
\* it is appended to line (no change) and echoed with send(b""), which sends
\* nothing and succeeds, and the loop goes round again.
ReadLineEof(c) ==
    /\ pc[c] = "read_line" /\ cli[c] = "fin" /\ inq[c] = <<>>
    /\ eofSeen' = [eofSeen EXCEPT ![c] = TRUE]
    /\ IF IsPrintable("")
       THEN pc' = pc
       ELSE pc' = [pc EXCEPT ![c] = ExitTo("unreadable")]
    /\ UNCHANGED <<netVars, sock, out, localVars, regVars, relayVars, closeLog>>

\* recv(1) raises: no byte within the 60 s deadline, or the connection is reset.
\* read_line returns None and the worker returns.
ReadLineFail(c) ==
    /\ pc[c] = "read_line"
    /\ \/ cli[c] = "open" /\ inq[c] = <<>>
       \/ cli[c] = "reset"
    /\ pc' = [pc EXCEPT ![c] = ExitTo("unreadable")]
    /\ UNCHANGED <<netVars, sock, out, localVars, regVars, relayVars, closeLog,
                   eofSeen>>

(***************************************************************************)
(* handle_client_final: join or create under events_lock.                  *)
(***************************************************************************)

\* with events_lock: (entering) and `if code in connected_events:`
Acquire(c) ==
    /\ pc[c] = "acquire"
    /\ LockFree(events_lock)
    /\ events_lock' = c
    /\ pc' = [pc EXCEPT ![c] =
                 IF DictHas(connected_events, code[c]) THEN "join" ELSE "create"]
    /\ UNCHANGED <<netVars, sock, out, localVars, connected_events, entries,
                   joinLog, relayVars, closeLog, eofSeen>>

\* The entry after the joiner's first write to it, with the event fired where
\* the partner should be stored.
SetPartnerAfterEvent(en, c) == [en EXCEPT !.event = TRUE]

\* entry["partner"] = conn
SetPartner(en, c) == [en EXCEPT !.partner = c]

\* entry["event"].set()
FireEvent(en) == [en EXCEPT !.event = TRUE]

\* entry = connected_events.pop(code); entry["partner"] = conn.  The waiting
\* party reads the entry without the lock, so the writes to it are steps of
\* their own.  pop raises KeyError when the key is gone, which leaves the lock.
JoinRoom(c) ==
    /\ pc[c] = "join"
    /\ IF DictHas(connected_events, code[c])
       THEN LET e == DictGet(connected_events, code[c]) IN
            /\ connected_events' = DictPop(connected_events, code[c])
            /\ entries' = [entries EXCEPT ![e] = SetPartner(@, c)]
            /\ entry' = [entry EXCEPT ![c] = e]
            /\ joinLog' = [joinLog EXCEPT ![e] = @ \cup {c}]
            /\ pc' = [pc EXCEPT ![c] = "signal"]
            /\ UNCHANGED events_lock
       ELSE /\ pc' = [pc EXCEPT ![c] = ExitTo("error")]
            /\ events_lock' = None
            /\ UNCHANGED <<connected_events, entries, entry, joinLog>>
    /\ UNCHANGED <<netVars, sock, out, line, code, fired, partner_conn, joining,
                   relayVars, closeLog, eofSeen>>

\* entry["event"].set(); partner_conn = None; joining = True; leave the lock.
JoinSignal(c) ==
    /\ pc[c] = "signal"
    /\ entries' = [entries EXCEPT ![entry[c]] = FireEvent(@)]
    /\ partner_conn' = [partner_conn EXCEPT ![c] = None]
    /\ joining' = [joining EXCEPT ![c] = TRUE]
    /\ events_lock' = None
    /\ pc' = [pc EXCEPT ![c] = "j_notify"]
    /\ UNCHANGED <<netVars, sock, out, line, code, entry, fired, connected_events,
                   joinLog, relayVars, closeLog, eofSeen>>

\* event = threading.Event(); entry = {"event": event, "partner": None};
\* connected_events[code] = entry; joining = False; leave the lock.
CreateRoom(c) ==
    /\ pc[c] = "create"
    /\ events_lock' = None
    /\ entries' = [entries EXCEPT ![c] = [event |-> FALSE, partner |-> None]]
    /\ connected_events' = DictPut(connected_events, code[c], c)
    /\ entry' = [entry EXCEPT ![c] = c]
    /\ joining' = [joining EXCEPT ![c] = FALSE]
    /\ pc' = [pc EXCEPT ![c] = "send_created"]
    /\ UNCHANGED <<netVars, sock, out, line, code, fired, partner_conn, joinLog,
                   relayVars, closeLog, eofSeen>>

(***************************************************************************)
(* handle_client_final: the party that created the room.                   *)
(***************************************************************************)

\* conn.send(b"  Room created! Waiting for partner...")
SendCreated(c) ==
    /\ pc[c] = "send_created"
    /\ IF CanSend(c)
       THEN /\ out' = Sent(out, c, Msg("created", <<>>))
            /\ pc' = [pc EXCEPT ![c] = "wait"]
       ELSE /\ out' = out
            /\ pc' = [pc EXCEPT ![c] = ExitTo("error")]
    /\ UNCHANGED <<netVars, sock, localVars, regVars, relayVars, closeLog,
                   eofSeen>>

\* fired = entry["event"].wait(timeout=300) returns True: the event is set.
\* Then `if not fired or entry["partner"] is None` and partner_conn = entry["partner"].
WaitFired(c) ==
    /\ pc[c] = "wait"
    /\ entries[entry[c]].event
    /\ fired' = [fired EXCEPT ![c] = TRUE]
    /\ IF entries[entry[c]].partner = None
       THEN /\ pc' = [pc EXCEPT ![c] = "timeout_send"]
            /\ UNCHANGED partner_conn
       ELSE /\ partner_conn' = [partner_conn EXCEPT ![c] = entries[entry[c]].partner]
            /\ pc' = [pc EXCEPT ![c] = "notify"]
    /\ UNCHANGED <<netVars, sock, out, line, code, entry, joining, regVars,
                   relayVars, closeLog, eofSeen>>

\* The wait returns False: 300 s have passed with the event not set.
WaitTimeout(c) ==
    /\ pc[c] = "wait"
    /\ ~entries[entry[c]].event
    /\ fired' = [fired EXCEPT ![c] = FALSE]
    /\ pc' = [pc EXCEPT ![c] = "timeout_send"]
    /\ UNCHANGED <<netVars, sock, out, line, code, entry, joining, partner_conn,
                   regVars, relayVars, closeLog, eofSeen>>

\* conn.send(b"  Timed out. Disconnecting.")
TimeoutSend(c) ==
    /\ pc[c] = "timeout_send"
    /\ IF CanSend(c)
       THEN /\ out' = Sent(out, c, Msg("timeout", <<>>))
            /\ pc' = [pc EXCEPT ![c] = "timeout_pop"]
       ELSE /\ out' = out
            /\ pc' = [pc EXCEPT ![c] = ExitTo("error")]
    /\ UNCHANGED <<netVars, sock, localVars, regVars, relayVars, closeLog,
                   eofSeen>>

\* with events_lock: connected_events.pop(code, None); then return
TimeoutPop(c) ==
    /\ pc[c] = "timeout_pop"
    /\ LockFree(events_lock)
    /\ connected_events' = DictPop(connected_events, code[c])
    /\ pc' = [pc EXCEPT ![c] = ExitTo("timeout")]
    /\ UNCHANGED <<netVars, sock, out, localVars, entries, events_lock, joinLog,
                   relayVars, closeLog, eofSeen>>

\* stop_event = threading.Event(); t1 and t2 are started; the worker goes on to
\* stop_event.wait()
StartRelay(c) ==
    /\ stop_event' = [stop_event EXCEPT ![c] = FALSE]
    /\ rpc' = [rpc EXCEPT ![c] = [k \in Threads |-> "check"]]
    /\ rbuf' = [rbuf EXCEPT ![c] = [k \in Threads |-> <<>>]]
    /\ pc' = [pc EXCEPT ![c] = "stop_wait"]

\* conn.send(b"  [Partner joined! ..."); partner_conn.send(b"  [Connected! ...");
\* a send that raises makes the worker return, otherwise the relay is started.
NotifyBoth(c) ==
    /\ pc[c] = "notify"
    /\ IF ~CanSend(c)
       THEN /\ out' = out
            /\ pc' = [pc EXCEPT ![c] = ExitTo("error")]
            /\ UNCHANGED relayVars
       ELSE IF ~CanSend(partner_conn[c])
       THEN /\ out' = Sent(out, c, Msg("joined", <<>>))
            /\ pc' = [pc EXCEPT ![c] = ExitTo("error")]
            /\ UNCHANGED relayVars
       ELSE /\ out' = Sent(Sent(out, c, Msg("joined", <<>>)),
                           partner_conn[c], Msg("connected", <<>>))
            /\ StartRelay(c)
    /\ UNCHANGED <<netVars, sock, localVars, regVars, closeLog, eofSeen>>

(***************************************************************************)
(* handle_client_final: the party that joined.                             *)
(***************************************************************************)

\* The join branch's value of partner_conn:
\* entry["partner"] if entry.get("partner") else None
JoinerPartnerConn(e) == IF e.partner # None THEN e.partner ELSE None

\* partner_conn = entry["partner"] if entry.get("partner") else None;
\* time.sleep(0.1); conn.send(b"  [Connected! ...")
JoinerNotify(c) ==
    /\ pc[c] = "j_notify"
    /\ partner_conn' = [partner_conn EXCEPT ![c] = JoinerPartnerConn(entries[entry[c]])]
    /\ IF CanSend(c)
       THEN /\ out' = Sent(out, c, Msg("connected", <<>>))
            /\ StartRelay(c)
       ELSE /\ out' = out
            /\ pc' = [pc EXCEPT ![c] = ExitTo("error")]
            /\ UNCHANGED relayVars
    /\ UNCHANGED <<netVars, sock, line, code, entry, joining, fired, regVars,
                   closeLog, eofSeen>>

(***************************************************************************)
(* handle_client_final: the session and the cleanup.                       *)
(***************************************************************************)

\* stop_event.wait() returns
StopWait(c) ==
    /\ pc[c] = "stop_wait"
    /\ stop_event[c]
    /\ pc' = [pc EXCEPT ![c] = ExitTo("ended")]
    /\ UNCHANGED <<netVars, sock, out, localVars, regVars, relayVars, closeLog,
                   eofSeen>>

\* finally: conn.close().  The connection is gone: what was received and not
\* read is dropped, and the client's end can do nothing more on it.
Finally(c) ==
    /\ pc[c] = "finally"
    /\ sock' = [sock EXCEPT ![c] = FALSE]
    /\ inq' = [inq EXCEPT ![c] = <<>>]
    /\ cli' = [cli EXCEPT ![c] = "reset"]
    /\ closeLog' = [closeLog EXCEPT ![c] = Append(@, <<c, "finally">>)]
    /\ pc' = [pc EXCEPT ![c] = "done"]
    /\ UNCHANGED <<arrivals, script, todo, out, localVars, regVars, relayVars,
                   eofSeen>>

(***************************************************************************)
(* relay(sender, receiver, label, stop_event): thread k of worker c.       *)
(***************************************************************************)

\* The thread leaves relay: by return, by break or by the loop condition; the
\* finally clause sets stop_event.
RelayLeave(c, k) ==
    /\ rpc' = [rpc EXCEPT ![c][k] = "done"]
    /\ stop_event' = RelayFinally(stop_event, c)

\* The end of an iteration: `while not stop_event.is_set():` is evaluated and
\* the thread goes on into recv or leaves.
RelayAgain(c, k) ==
    IF LoopCondition(stop_event, c)
    THEN /\ rpc' = [rpc EXCEPT ![c][k] = "recv"]
         /\ stop_event' = stop_event
    ELSE RelayLeave(c, k)

\* The loop condition when the thread starts.
RelayCheck(c, k) ==
    /\ rpc[c][k] = "check"
    /\ RelayAgain(c, k)
    /\ UNCHANGED <<netVars, sock, out, pc, localVars, regVars, rbuf, closeLog,
                   eofSeen>>

\* sender.recv(1) raises socket.timeout after 1 s without data: continue
RelayRecvTimeout(c, k) ==
    /\ rpc[c][k] = "recv"
    /\ LET s == Sender(c, k) IN
       /\ s # None /\ sock[s] /\ cli[s] = "open" /\ inq[s] = <<>>
    /\ RelayAgain(c, k)
    /\ UNCHANGED <<netVars, sock, out, pc, localVars, regVars, rbuf, closeLog,
                   eofSeen>>

\* sender.recv(1) raises another error (the socket object is closed, the
\* connection is reset, sender is None) or returns no bytes: break
RelayRecvEnd(c, k) ==
    /\ rpc[c][k] = "recv"
    /\ LET s == Sender(c, k) IN
       \/ s = None
       \/ s # None /\ ~sock[s]
       \/ s # None /\ sock[s] /\ cli[s] = "reset"
       \/ s # None /\ sock[s] /\ cli[s] = "fin" /\ inq[s] = <<>>
    /\ RelayLeave(c, k)
    /\ UNCHANGED <<netVars, sock, out, pc, localVars, regVars, rbuf, closeLog,
                   eofSeen>>

\* sender.recv(1) returns a byte, which the loop body handles.
RelayRecvChar(c, k) ==
    /\ rpc[c][k] = "recv"
    /\ LET s == Sender(c, k)
           r == Receiver(c, k)
       IN
       /\ s # None /\ sock[s] /\ cli[s] # "reset" /\ inq[s] # <<>>
       /\ LET ch == Head(inq[s])
              msg == Strip(rbuf[c][k])
          IN
          /\ inq' = [inq EXCEPT ![s] = Tail(@)]
          /\ IF ch \in {CR, LF}
             THEN IF rbuf[c][k] = <<>>
                  THEN /\ RelayAgain(c, k)
                       /\ UNCHANGED <<rbuf, out>>
                  ELSE /\ rbuf' = [rbuf EXCEPT ![c][k] = <<>>]
                       /\ IF IsQuit(msg)
                          THEN /\ out' = IF CanSend(r)
                                         THEN Sent(out, r, Msg("left", <<>>))
                                         ELSE out
                               /\ RelayLeave(c, k)
                          ELSE IF ~CanSend(r)
                          THEN /\ out' = out
                               /\ RelayLeave(c, k)
                          ELSE IF ~CanSend(s)
                          THEN /\ out' = Sent(out, r, Msg("them", msg))
                               /\ RelayLeave(c, k)
                          ELSE /\ out' = Sent(Sent(out, r, Msg("them", msg)),
                                              s, Msg("prompt", <<>>))
                               /\ RelayAgain(c, k)
             ELSE IF ch \in {DEL, BS}
             THEN IF rbuf[c][k] = <<>>
                  THEN /\ RelayAgain(c, k)
                       /\ UNCHANGED <<rbuf, out>>
                  ELSE /\ rbuf' = [rbuf EXCEPT ![c][k] = Front(@)]
                       /\ IF CanSend(s)
                          THEN /\ out' = Sent(out, s, Msg("erase", <<>>))
                               /\ RelayAgain(c, k)
                          ELSE /\ out' = out
                               /\ RelayLeave(c, k)
             ELSE /\ rbuf' = [rbuf EXCEPT ![c][k] = Append(@, ch)]
                  /\ IF CanSend(s)
                     THEN /\ out' = Sent(out, s, Msg("echo", <<ch>>))
                          /\ RelayAgain(c, k)
                     ELSE /\ out' = out
                          /\ RelayLeave(c, k)
    /\ UNCHANGED <<arrivals, script, todo, cli, sock, pc, localVars, regVars, closeLog,
                   eofSeen>>

(***************************************************************************)
(* The system.                                                             *)
(***************************************************************************)

Worker(c) ==
    \/ Accept(c)
    \/ Banner(c)
    \/ ReadLineChar(c)
    \/ ReadLineEof(c)
    \/ ReadLineFail(c)
    \/ Acquire(c)
    \/ JoinRoom(c)
    \/ JoinSignal(c)
    \/ CreateRoom(c)
    \/ SendCreated(c)
    \/ WaitFired(c)
    \/ WaitTimeout(c)
    \/ TimeoutSend(c)
    \/ TimeoutPop(c)
    \/ NotifyBoth(c)
    \/ JoinerNotify(c)
    \/ StopWait(c)
    \/ Finally(c)

Relay(c, k) ==
    \/ RelayCheck(c, k)
    \/ RelayRecvTimeout(c, k)
    \/ RelayRecvEnd(c, k)
    \/ RelayRecvChar(c, k)

Client(c) ==
    \/ ClientSend(c)
    \/ ClientClose(c)
    \/ ClientReset(c)

Next ==
    \/ \E c \in Conns : Worker(c)
    \/ \E c \in Conns : \E k \in Threads : Relay(c, k)
    \/ \E c \in Conns : Client(c)

\* What the clients send, chunk by chunk: each chunk answers a message the
\* client has seen (the banner's prompt; the notice that a partner joined, which
\* only the party that created the room gets; the notice of being connected,
\* which only the party that joined gets).
Chunk(after, data) == [after |-> after, data |-> data]

RoomA == Chunk("banner", <<"a", LF>>)
RoomAUpper == Chunk("banner", <<"A", LF>>)
RoomB == Chunk("banner", <<"b", CR, LF>>)
RoomASpaced == Chunk("banner", <<SP, "a", SP, LF>>)
RoomT == Chunk("banner", <<"t", LF>>)
RoomTUpper == Chunk("banner", <<"T", LF>>)
Blank == Chunk("banner", <<SP, LF>>)
Partial == Chunk("banner", <<"a">>)
WaiterLine(text) == Chunk("joined", text \o <<LF>>)
JoinerLine(text) == Chunk("connected", text \o <<LF>>)

\* A scenario gives the scripts of the clients in the order they connect.
ScriptsOf(sc) == [c \in Conns |-> IF c <= Len(sc) THEN sc[c] ELSE <<RoomA>>]

\* Two clients: rendezvous and chat.
ChatScenarios ==
    { << <<RoomA, WaiterLine(<<"a">>), WaiterLine(<<"b">>), WaiterLine(<<"c">>)>>, <<RoomA>> >>,
      << <<RoomA, JoinerLine(<<"a">>), JoinerLine(<<"b">>)>>, <<RoomA>> >>,
      << <<RoomA, WaiterLine(<<"a">>)>>, <<RoomA, JoinerLine(<<"b">>)>> >>,
      << <<RoomA, WaiterLine(QUIT)>>, <<RoomA>> >>,
      << <<RoomA, WaiterLine(<<"b", BS, "a">>)>>, <<RoomAUpper>> >>,
      << <<Partial>>, <<Blank>> >>,
      << <<RoomA>>, <<RoomB>> >>,
      << <<RoomASpaced>>, <<RoomAUpper>> >>,
      << <<RoomA, RoomT>>, <<RoomB, RoomTUpper>> >>,
      << <<RoomA, WaiterLine(<<SP, "/", "Q", "u", "I", "T">>)>>, <<RoomA>> >>,
      << <<RoomA>>, <<Blank>> >> }

\* Two clients: a short session, ended by /quit or by the clients leaving.
SessionScenarios ==
    { << <<RoomA, WaiterLine(QUIT)>>, <<RoomA>> >>,
      << <<RoomA, WaiterLine(<<"a">>)>>, <<RoomA>> >>,
      << <<RoomA>>, <<RoomB>> >> }

\* Every client that connects presents a room code; one chats.
RendezvousScenarios ==
    { << <<RoomA>>, <<RoomA>>, <<RoomA>> >>,
      << <<RoomA, WaiterLine(<<"b">>)>>, <<RoomA>>, <<Blank>> >> }

Init ==
    /\ arrivals = PairConns
    /\ \E sc \in ChatScenarios : script = ScriptsOf(sc)
    /\ InitCommon

RendezvousInit ==
    /\ arrivals = MaxConns
    /\ \E sc \in RendezvousScenarios : script = ScriptsOf(sc)
    /\ InitCommon

Spec == Init /\ [][Next]_vars

\* Every started thread keeps being scheduled, and a recv or wait with a deadline
\* returns when the deadline has passed.  Whether a client connects, sends or
\* leaves is up to the client.
WorkerStep(c) ==
    \E d \in {c} :
       \/ Banner(d) \/ ReadLineChar(d) \/ ReadLineEof(d) \/ ReadLineFail(d)
       \/ Acquire(d) \/ JoinRoom(d) \/ JoinSignal(d) \/ CreateRoom(d) \/ SendCreated(d)
       \/ WaitFired(d) \/ WaitTimeout(d) \/ TimeoutSend(d) \/ TimeoutPop(d)
       \/ NotifyBoth(d) \/ JoinerNotify(d) \/ StopWait(d) \/ Finally(d)

Fairness ==
    /\ \A c \in Conns : WF_vars(WorkerStep(c))
    /\ \A c \in Conns : \A k \in Threads : WF_vars(Relay(c, k))

SessionInit ==
    /\ arrivals = PairConns
    /\ \E sc \in SessionScenarios : script = ScriptsOf(sc)
    /\ InitCommon

FairSpec == SessionInit /\ [][Next]_vars /\ Fairness

RendezvousSpec == RendezvousInit /\ [][Next]_vars

(***************************************************************************)
(* Rendezvous.                                                             *)
(***************************************************************************)

\* The worker has run the create branch: its local entry is the one it made.
Created(c) == entry[c] = c

\* The worker has run the join branch on the entry e.
JoinedEntry(c, e) == c \in joinLog[e]

InRegistry(e) == <<code[e], e>> \in connected_events

InLockedBlock(c) == pc[c] \in {"join", "signal", "create"}

\* C1: Join-or-create is one atomic step under events_lock and pairs the first
\* two presenters of a room code.  At most one worker is inside the locked block,
\* and the outcome of its `code in connected_events` test still holds when it
\* pops or inserts; the registry holds one entry per code, each one made by a
\* worker that presented that code and not yet joined by anyone (so whoever
\* finds an entry is its first joiner, and a later presenter makes a fresh
\* entry); an entry is joined by at most one worker, which is not its creator,
\* is recorded as its partner and has removed it from the registry; no worker
\* both creates and joins, or joins two entries.
PairingIsAtomic ==
    /\ \A c, d \in Conns : InLockedBlock(c) /\ InLockedBlock(d) => c = d
    /\ \A c \in Conns : InLockedBlock(c) => events_lock = c
    /\ \A c \in Conns : pc[c] = "create" => ~DictHas(connected_events, code[c])
    /\ \A c \in Conns : pc[c] = "join" => DictHas(connected_events, code[c])
    /\ \A p, q \in connected_events : p[1] = q[1] => p = q
    /\ \A p \in connected_events :
          /\ Created(p[2]) /\ code[p[2]] = p[1]
          /\ joinLog[p[2]] = {}
          /\ ~entries[p[2]].event /\ entries[p[2]].partner = None
    /\ \A e \in Conns : Cardinality(joinLog[e]) <= 1
    /\ \A e, j \in Conns :
          JoinedEntry(j, e) =>
             /\ j # e /\ Created(e) /\ code[j] = code[e]
             /\ entries[e].partner = j
             /\ pc[j] # "signal" => entries[e].event
             /\ ~InRegistry(e)
             /\ ~Created(j)
             /\ \A f \in Conns : JoinedEntry(j, f) => f = e

\* Three presenters of one code: the second has joined the first's entry and the
\* third has made a fresh entry, which is in the registry.
ThirdPresenterCreates ==
    \E w, j, k \in Conns :
       /\ w # j /\ j # k /\ w # k
       /\ joinLog[w] = {j} /\ joining[j] /\ pc[j] = "stop_wait"
       /\ code[k] = code[w] /\ Created(k) /\ InRegistry(k) /\ pc[k] = "wait"

(***************************************************************************)
(* Sessions.                                                               *)
(***************************************************************************)

\* The worker has started its relay threads.
RelayStarted(c) == rpc[c][1] # "none"

\* A relay thread of worker c is still running.
SessionLive(c) == \E k \in Threads : rpc[c][k] \in {"check", "recv"}

\* C2: A worker that joined a room relays between itself and the waiting party:
\* its partner_conn is the connection of the party whose entry it popped, and
\* each of its relay threads has two different connections as sender and receiver.
JoinerRelaysWithWaitingParty ==
    \A c \in Conns :
       joining[c] /\ RelayStarted(c) =>
          /\ partner_conn[c] = entry[c]
          /\ \A k \in Threads : Sender(c, k) # Receiver(c, k)

\* The chat lines a client has sent so far: the chunks after the room code that
\* are no longer to be sent, each without its line end and with its backspaces
\* applied.
LineText(data) == ReadLineRun(<<>>, data, <<>>, TRUE).line

ChatLines(c) ==
    LET n == Len(script[c]) - Len(todo[c]) IN
    [i \in 1..(IF n > 1 THEN n - 1 ELSE 0) |-> LineText(script[c][i + 1].data)]

\* The chat lines forwarded to a client so far, in the order they were sent to it.
RECURSIVE Forwarded(_)
Forwarded(o) ==
    IF o = <<>> THEN <<>>
    ELSE IF Head(o)[1] = "them" THEN <<Head(o)[2]>> \o Forwarded(Tail(o))
    ELSE Forwarded(Tail(o))

IsPrefix(a, b) == Len(a) <= Len(b) /\ SubSeq(b, 1, Len(a)) = a

\* C3: Between the two parties of a pair, in both directions, the lines forwarded
\* to one party are, in order and each once, the first of the lines the other
\* party has sent; and they are all of them once the sender's input is read and
\* both connections are still up.
LinesDeliveredInOrder ==
    \A w, j \in Conns :
       JoinedEntry(j, w) =>
          \A d \in {<<w, j>>, <<j, w>>} :
             /\ IsPrefix(Forwarded(out[d[2]]), ChatLines(d[1]))
             /\ ( /\ sock[w] /\ sock[j] /\ cli[w] = "open" /\ cli[j] = "open"
                  /\ RelayStarted(w) /\ RelayStarted(j)
                  /\ ~stop_event[w] /\ ~stop_event[j]
                  /\ inq[d[1]] = <<>>
                  /\ \A c \in {w, j} : \A k \in Threads : rbuf[c][k] = <<>> )
                => Forwarded(out[d[2]]) = ChatLines(d[1])

\* A relay thread has read /quit from one party of the pair and sent the
\* departure notice to the other.
QuitNoticed(w, j) ==
    JoinedEntry(j, w) /\ (HasSeen(w, "left") \/ HasSeen(j, "left"))

\* C4: Once the departure notice of a /quit has been sent to a party of a pair,
\* both workers of the pair return, each connection having been closed once.
QuitEndsSessionForBoth ==
    (\E w, j \in Conns : QuitNoticed(w, j))
       ~> (\A w, j \in Conns :
              QuitNoticed(w, j) =>
                 /\ pc[w] = "done" /\ pc[j] = "done"
                 /\ Len(closeLog[w]) = 1 /\ Len(closeLog[j]) = 1)

\* C5: A connection is in at most one session at a time, and not at once in a
\* session and in the registry as a waiting party.
OneSessionPerConnection ==
    \A x \in Conns :
       /\ Cardinality({c \in Conns : SessionLive(c) /\ x \in {c, partner_conn[c]}}) <= 1
       /\ ~(InRegistry(x) /\ \E c \in Conns : SessionLive(c) /\ x \in {c, partner_conn[c]})

\* The worker created a room and its wait ended unfired.
WaitExpired(c) ==
    /\ Created(c) /\ HasSeen(c, "created") /\ ~fired[c]
    /\ pc[c] \in {"timeout_send", "timeout_pop", "finally", "done"}

\* C6: A worker whose wait for a partner timed out with nobody having joined
\* ends with the timed-out notice sent to its client, its entry out of the
\* registry and its connection closed.
TimedOutRoomIsReleased ==
    \A c \in Conns :
       WaitExpired(c) /\ joinLog[c] = {} /\ pc[c] = "done" =>
          /\ HasSeen(c, "timeout")
          /\ ~InRegistry(c)
          /\ ~sock[c]

\* C7: An entry whose creator's wait has timed out does not stay in the registry.
ExpiredEntryIsEvicted ==
    (\E c \in Conns : WaitExpired(c) /\ InRegistry(c))
       ~> (\A c \in Conns : WaitExpired(c) => ~InRegistry(c))

\* C8: When recv returns no bytes while read_line collects the room code,
\* read_line returns and the worker leaves the loop for its cleanup.
EndOfStreamEndsReadLine ==
    \A c \in Conns : eofSeen[c] => pc[c] \in {"finally", "done"}

\* C9: A connection is closed only by its own worker, in the finally clause, and
\* once: it is open with no close on record until the worker's cleanup has run,
\* and closed by exactly one close once the worker has returned.
ClosedOnceByOwner ==
    \A c \in Conns :
       /\ Len(closeLog[c]) <= 1
       /\ \A i \in 1..Len(closeLog[c]) : closeLog[c][i] = <<c, "finally">>
       /\ pc[c] = "done" <=> Len(closeLog[c]) = 1
       /\ pc[c] = "done" <=> ~sock[c]

\* Two workers have returned, one after its relay threads ended a chat and one
\* with its connection never paired; each connection has its one close.
WorkersReturnedAndClosed ==
    \E c, d \in Conns :
       /\ c # d
       /\ pc[c] = "done" /\ rpc[c][1] = "done" /\ rpc[c][2] = "done"
       /\ pc[d] = "done" /\ ~sock[c] /\ ~sock[d]
       /\ Len(closeLog[c]) = 1 /\ Len(closeLog[d]) = 1

\* Both parties of a pair have disconnected.
BothGone(w, j) == JoinedEntry(j, w) /\ cli[w] # "open" /\ cli[j] # "open"

\* C10: When both parties of a pair have disconnected, both workers return,
\* and no connection is ever closed twice.
TeardownOnDoubleDisconnect ==
    /\ [](\A c \in Conns : Len(closeLog[c]) <= 1)
    /\ (\E w, j \in Conns : BothGone(w, j))
          ~> (\A w, j \in Conns : BothGone(w, j) => pc[w] = "done" /\ pc[j] = "done")

\* Both parties of a pair are in their sessions, both clients have closed their
\* ends, and no worker has noticed yet.
BothDisconnectInSession ==
    \E w, j \in Conns :
       /\ JoinedEntry(j, w) /\ cli[w] = "fin" /\ cli[j] = "fin"
       /\ pc[w] = "stop_wait" /\ pc[j] = "stop_wait"
       /\ ~stop_event[w] /\ ~stop_event[j]

(***************************************************************************)
(* The relay threads and the stop event.                                   *)
(***************************************************************************)

\* The number of chat lines forwarded to the client of connection r so far.
ForwardCount(r) == Len(Forwarded(out[r]))

\* C11: Once a worker's stop_event is set, no relay thread of that worker
\* forwards another chat line: a step of a relay thread taken with the event
\* set leaves the lines forwarded to every connection as they were.
NoForwardAfterStop ==
    [][\A c \in Conns : \A k \in Threads :
          stop_event[c] /\ RelayRecvChar(c, k) =>
             \A r \in Conns : ForwardCount(r)' = ForwardCount(r)]_vars

(***************************************************************************)
(* The registry and its entries.                                           *)
(***************************************************************************)

\* C12: The registry holds at most one entry per room code.  An entry's event
\* is set once, by the joiner that popped the entry and stored itself as the
\* partner while holding the lock it still holds; so a set event always comes
\* with a partner, and the partner never changes.  An entry is put into the
\* registry only by the worker that makes it, fresh, in its create branch.
RegistryEntriesAreSound ==
    /\ [](/\ \A p, q \in connected_events : p[1] = q[1] => p = q
          /\ \A e \in Conns :
                entries[e].event =>
                   /\ entries[e].partner # None
                   /\ joinLog[e] = {entries[e].partner}
                   /\ ~InRegistry(e))
    /\ [][/\ \A c \in Conns :
                JoinSignal(c) =>
                   /\ ~entries[entry[c]].event
                   /\ entries[entry[c]].partner = c
                   /\ joinLog[entry[c]] = {c}
                   /\ events_lock = c
          /\ \A e \in Conns :
                /\ entries[e].event # entries'[e].event =>
                      \E c \in Conns : JoinSignal(c) /\ entry[c] = e
                /\ entries[e].partner # None =>
                      entries'[e].partner = entries[e].partner
                /\ ~InRegistry(e) /\ InRegistry(e)' =>
                      /\ CreateRoom(e) /\ entry[e] = None
                      /\ entries'[e] = [event |-> FALSE, partner |-> None]
                      /\ joinLog[e] = {}]_vars

\* A waiting party has seen its event set and read its partner, and a later
\* presenter of the same code has put a fresh entry into the registry.
FiredOnceAndCodeReused ==
    \E w, j, k \in Conns :
       /\ fired[w] /\ partner_conn[w] = j /\ joinLog[w] = {j}
       /\ k # w /\ code[k] = code[w] /\ Created(k) /\ InRegistry(k)

(***************************************************************************)
(* Room codes.                                                             *)
(***************************************************************************)

\* The room code as the client typed it: its first line, backspaces applied.
Typed(c) == LineText(script[c][1].data)

\* Two typed codes differ at most in letter case and in outer whitespace.
SameRoom(x, y) == Lower(Strip(x)) = Lower(Strip(y))

\* C13: Room codes are matched without regard to letter case and to outer
\* whitespace.  A worker that has tested the registry under the lock is on the
\* join branch exactly when the registry holds an entry whose creator typed the
\* same room, and it is that entry it pops; workers are never paired when their
\* codes name different rooms.
CodesMatchIgnoringCaseAndSpace ==
    /\ \A c \in Conns : \A p \in connected_events :
          /\ pc[c] = "join" /\ p[1] = code[c] => SameRoom(Typed(c), Typed(p[2]))
          /\ pc[c] = "create" => ~SameRoom(Typed(c), Typed(p[2]))
    /\ \A c \in Conns :
          pc[c] = "join" =>
             \E p \in connected_events : SameRoom(Typed(c), Typed(p[2]))
    /\ \A e, j \in Conns : JoinedEntry(j, e) => SameRoom(Typed(j), Typed(e))

\* A worker has joined the entry of a party whose code, as typed, differs from
\* its own in case and in whitespace.
JoinedAcrossCaseAndSpace ==
    \E e, j \in Conns :
       /\ JoinedEntry(j, e) /\ pc[j] = "stop_wait"
       /\ Strip(Typed(e)) # Typed(e)
       /\ Strip(Typed(e)) # Strip(Typed(j))

(***************************************************************************)
(* Display names.                                                          *)
(***************************************************************************)

\* The label a forwarded line carries: f"\r\n  Them: {msg}\r\n  You: "
Label(m) == IF m[1] = "them" THEN <<"T", "h", "e", "m">> ELSE <<>>

\* The worker has got a line from read_line and made its code of it.
HasCode(c) == pc[c] \notin {"idle", "banner", "read_line"} /\ code[c] # <<>>

\* C14: A client's first line is its display name and its second line the room
\* code: a worker's code is made of the second line of its client, and a chat
\* line forwarded to a party carries the display name of the other party.
NamesAreCollectedAndShown ==
    /\ \A c \in Conns :
          HasCode(c) =>
             /\ Len(script[c]) >= 2
             /\ code[c] = NormalizeCode(LineText(script[c][2].data))
    /\ \A r \in Conns : \A i \in 1..Len(out[r]) :
          out[r][i][1] = "them" =>
             \E s \in Conns : s # r /\ HasCode(s) /\ Label(out[r][i]) = Typed(s)

\* A relay thread of worker c has left relay.
LoopStopped(c) == \E k \in Threads : rpc[c][k] = "done"

\* The worker's session is over: both relay threads have left relay and the
\* worker is past stop_event.wait().
SessionOver(c) ==
    /\ \A k \in Threads : rpc[c][k] = "done"
    /\ pc[c] \in {"finally", "done"}

\* C15: A relay thread that has left relay has set its worker's stop_event.
\* With the event set, whatever a relay thread of that worker does next (its
\* recv returning a byte, timing out or failing) is the last thing it does.
\* And once the event is set both threads leave and the worker's
\* stop_event.wait() returns.
StopReachesBothLoops ==
    /\ [](\A c \in Conns : LoopStopped(c) => stop_event[c])
    /\ [][\A c \in Conns : \A k \in Threads :
             stop_event[c] /\ rpc'[c][k] # rpc[c][k] => rpc'[c][k] = "done"]_vars
    /\ (\E c \in Conns : stop_event[c])
          ~> (\A c \in Conns : stop_event[c] => SessionOver(c))

\* One relay thread has left on /quit and set the event; the other is still in
\* recv on a connection whose client is there and silent.
OneLoopStoppedOtherInRecv ==
    \E c \in Conns : \E k, l \in Threads :
       /\ stop_event[c] /\ pc[c] = "stop_wait"
       /\ rpc[c][k] = "done" /\ rpc[c][l] = "recv"
       /\ HasSeen(Receiver(c, k), "left")
       /\ cli[Sender(c, l)] = "open" /\ inq[Sender(c, l)] = <<>>

(***************************************************************************)
(* The pairing timeout.                                                    *)
(***************************************************************************)

\* C16: The two sides of a join agree: a joiner that has started its relay
\* threads did not pop the entry of a waiting party whose wait has timed out.
PairingAgreesUnderTimeout ==
    \A w, j \in Conns :
       JoinedEntry(j, w) /\ RelayStarted(j) => ~WaitExpired(w)

\* C17: The pop of the timeout path removes no entry made by another worker, so
\* a worker waiting on an entry that nobody has joined has it in the registry.
TimeoutPopsOwnEntryOnly ==
    /\ [][\A c, e \in Conns :
             TimeoutPop(c) /\ e # c /\ InRegistry(e) => InRegistry(e)']_vars
    /\ [](\A c \in Conns :
             pc[c] = "wait" /\ joinLog[c] = {} => InRegistry(c))

(***************************************************************************)
(* Notices and relay traffic.                                              *)
(***************************************************************************)

\* Message i sent to connection r is relay traffic from the other party.
IsRelayed(r, i) == out[r][i][1] \in {"them", "left"}

\* C18: Whatever the relay threads forward to the party that created the room
\* comes after that party's 'Partner joined' notice.
NoticeBeforeRelayTraffic ==
    \A w \in Conns :
       Created(w) =>
          \A i \in 1..Len(out[w]) :
             IsRelayed(w, i) => \E h \in 1..(i - 1) : out[w][h][1] = "joined"

\* The party that created the room has been sent its notice and then a chat
\* line of the party that joined.
WaiterGotNoticeThenLine ==
    \E w, j \in Conns :
       /\ Created(w) /\ JoinedEntry(j, w)
       /\ \E i \in 1..Len(out[w]) : \E h \in 1..(i - 1) :
             /\ out[w][h][1] = "joined"
             /\ out[w][i][1] = "them" /\ out[w][i][2] # <<>>
             /\ IsPrefix(<<out[w][i][2]>>, ChatLines(j))

\* The text is the leave command in some mix of upper and lower case.
IsLeaveCommand(msg) ==
    /\ Len(msg) = 5
    /\ msg[1] = "/"
    /\ msg[2] \in {"q", "Q"} /\ msg[3] \in {"u", "U"}
    /\ msg[4] \in {"i", "I"} /\ msg[5] \in {"t", "T"}

\* Thread k of worker c is about to read the line end that completes a
\* non-empty line.
CompletesLine(c, k) ==
    /\ rpc[c][k] = "recv" /\ rbuf[c][k] # <<>>
    /\ Sender(c, k) # None /\ inq[Sender(c, k)] # <<>>
    /\ Head(inq[Sender(c, k)]) \in {CR, LF}

\* C19: No forwarded chat line is the leave command.  A relay thread that
\* completes a line whose stripped text is the leave command forwards nothing,
\* sends the departure notice to its receiver if it can, sets stop_event and
\* leaves; one that completes any other line forwards its stripped text to the
\* receiver, or, when that send fails, forwards nothing, sets stop_event and
\* leaves.
QuitIsNeverForwarded ==
    /\ [](\A r \in Conns : \A i \in 1..Len(out[r]) :
             out[r][i][1] = "them" => ~IsLeaveCommand(out[r][i][2]))
    /\ [][\A c \in Conns : \A k \in Threads :
             CompletesLine(c, k) /\ RelayRecvChar(c, k) =>
                LET msg == Strip(rbuf[c][k])
                    r == Receiver(c, k)
                    gone == rpc'[c][k] = "done" /\ stop_event'[c]
                    quiet == \A x \in Conns : ForwardCount(x)' = ForwardCount(x)
                IN
                IF IsLeaveCommand(msg)
                THEN /\ gone /\ quiet
                     /\ CanSend(r) => out'[r] = Append(out[r], Msg("left", <<>>))
                ELSE IF CanSend(r)
                THEN Forwarded(out'[r]) = Append(Forwarded(out[r]), msg)
                ELSE gone /\ out' = out]_vars

\* A party typed the leave command with capitals and a leading blank: its
\* partner has the departure notice, the worker's stop_event is set.
MixedCaseQuitEndedChat ==
    \E w, j \in Conns :
       /\ JoinedEntry(j, w) /\ HasSeen(j, "left") /\ stop_event[w]
       /\ \E i \in 1..Len(ChatLines(w)) :
             /\ IsLeaveCommand(Strip(ChatLines(w)[i]))
             /\ ChatLines(w)[i] # QUIT

(***************************************************************************)
(* Invalid room codes.                                                     *)
(***************************************************************************)

\* What the client types as its room code is empty once stripped.
BlankCode(c) == Strip(Typed(c)) = <<>>

\* C20: A worker whose client types a blank room code goes from read_line
\* straight to its cleanup: it never enters the locked block, makes or joins
\* no entry and starts no relay thread; when it could answer the line it has
\* sent 'Invalid code', and only blank codes get that answer; when it is done
\* its connection is closed, once.  No step of such a worker changes the
\* registry or an entry.
BlankCodeIsRejected ==
    /\ [](\A c \in Conns :
             /\ HasSeen(c, "invalid") => BlankCode(c)
             /\ BlankCode(c) =>
                   /\ pc[c] \in {"idle", "banner", "read_line", "finally", "done"}
                   /\ entry[c] = None /\ ~InRegistry(c) /\ ~RelayStarted(c)
                   /\ joinLog[c] = {} /\ \A e \in Conns : ~JoinedEntry(c, e)
                   /\ HasSeen(c, "newline") =>
                         HasSeen(c, "invalid") /\ pc[c] \in {"finally", "done"}
                   /\ pc[c] = "done" => ~sock[c] /\ Len(closeLog[c]) = 1)
    /\ [][\A c \in Conns :
             BlankCode(c) /\ pc'[c] # pc[c] =>
                UNCHANGED <<connected_events, entries, events_lock, joinLog>>]_vars

\* A client that typed a blank code has its answer and its connection closed,
\* while another party's room is waiting in the registry.
BlankRejectedBesideWaitingRoom ==
    \E c, w \in Conns :
       /\ BlankCode(c) /\ HasSeen(c, "invalid") /\ pc[c] = "done" /\ ~sock[c]
       /\ w # c /\ InRegistry(w) /\ pc[w] = "wait"

====
